---- MODULE Spec2Model ----
(***************************************************************************)
(* Dot-to-dot task generator (src/src/generator.py, src/src/config.py).    *)
(*                                                                         *)
(* Four specifications share the variables below:                           *)
(*   Spec      - the point-sampling loop of _generate_task_data            *)
(*   SpecOrder - _determine_connection_order / _find_path_order            *)
(*   SpecAnim  - _render_initial_state, _render_final_state and            *)
(*               _create_connection_animation_frames                       *)
(*   SpecPair  - generate_task_pair from construction to the returned      *)
(*               TaskPair, with _generate_video                            *)
(***************************************************************************)
EXTENDS Integers, Sequences, FiniteSets, TLC

VARIABLES
    pc,               \* position in the code
    num_dots,         \* config.num_dots
    dot_radius,       \* config.dot_radius
    image_size,       \* config.image_size = <<width, height>>
    points,           \* the list `points`, each <<x, y>>; Python index i is points[i+1]
    attempts,         \* the counter `attempts` of the point being placed
    gridPlaced,       \* history: Python indices of the points appended at line 105
    connection_type,  \* config.connection_type
    connection_order, \* the list `order` / task_data["connection_order"]
    visited,          \* the set `visited` of _find_path_order
    current_idx,      \* `current_idx` of _find_path_order
    rngDraws,         \* history: calls of the random module made while ordering
    show_numbers,     \* config.show_numbers
    hold_frames,      \* argument hold_frames of _create_connection_animation_frames
    transition_frames, \* argument transition_frames_per_connection
    first_image,      \* first_image of generate_task_pair: a sequence of draw calls
    final_image,      \* final_image of generate_task_pair
    frames,           \* the list `frames` of _create_connection_animation_frames
    connection_idx,   \* the loop variable of line 348
    generate_videos,  \* config.generate_videos
    video_generator,  \* TRUE when self.video_generator is a VideoGenerator, FALSE when None
    task_id,          \* argument task_id of generate_task_pair
    video_path,       \* video_path of generate_task_pair
    task_pair         \* the TaskPair returned by generate_task_pair

config == <<num_dots, dot_radius, image_size, connection_type, show_numbers>>

rendering == <<hold_frames, transition_frames, first_image, final_image, frames, connection_idx>>

sampling == <<attempts, gridPlaced>>

ordering == <<connection_order, visited, current_idx, rngDraws>>

pair == <<generate_videos, video_generator, task_id, video_path, task_pair>>

vars == <<pc, config, points, sampling, ordering, rendering, pair>>

\* ------------------------------------------------------------------------
\* Bounds of the model and constants of the program
\* ------------------------------------------------------------------------
MaxDots == 5
MaxOrderDots == 4
MaxAnimDots == 4
MaxHold == 1
MaxTransition == 2

MinNumDots == 3
DefaultNumDots == 5
MaxNumDots == 15
MinDotRadius == 5
MaxDotRadius == 20
MinMargin == 40
MaxAttempts == 100
DefaultHoldFrames == 5
DefaultTransitionFrames == 15

DotRadii == {8, 20} \cap (MinDotRadius..MaxDotRadius)

ImageSizes == {<<512, 512>>, <<140, 131>>, <<100, 100>>}

Max(a, b) == IF a >= b THEN a ELSE b

Min(a, b) == IF a <= b THEN a ELSE b

\* None, for an index
NoIndex == -1

\* Python's None
None == "None"

DotCounts == MinNumDots..Min(MaxDots, MaxNumDots)

\* ------------------------------------------------------------------------
\* _generate_task_data: point sampling
\* ------------------------------------------------------------------------
MarginOf(r) == Max(r * 3, MinMargin)

margin == MarginOf(dot_radius)

width == image_size[1]

height == image_size[2]

\* (x - px)**2 + (y - py)**2
Dist2(p, q) == (p[1] - q[1]) * (p[1] - q[1]) + (p[2] - q[2]) * (p[2] - q[2])

\* mutant: the factor 1.5 of line 88 dropped (dist < margin)
CloserThanMargin(p, q, m) == Dist2(p, q) < m * m

\* math.sqrt(d2) < margin * 1.5, squared and cleared of the fraction
CloserThanSeparation(p, q, m) == 4 * Dist2(p, q) < 9 * m * m

TooClose(p, pts, m) == \E k \in 1..Len(pts) : CloserThanSeparation(p, pts[k], m)

\* random.randint(lo, hi) at line 81: the values the model draws for x (both
\* ends of the range and its middle); empty when the range is empty
RandintX(lo, hi) == {v \in {lo, (lo + hi) \div 2, hi} : lo <= v /\ v <= hi}

\* random.randint(lo, hi) at line 82: the values the model draws for y (both
\* ends of the range); empty when the range is empty
RandintY(lo, hi) == {v \in {lo, hi} : lo <= v /\ v <= hi}

\* int(math.ceil(math.sqrt(n)))
CeilSqrt(n) == CHOOSE g \in 0..n : g * g >= n /\ (g = 0 \/ (g - 1) * (g - 1) < n)

\* int(a / b) for b > 0: truncation toward zero
TruncDiv(a, b) == IF a >= 0 THEN a \div b ELSE -((-a) \div b)

\* mutant: the grid spans the whole dimension instead of dim - 2 * margin
GridCoordFullSpan(dim, m, k, g) ==
    IF g > 1 THEN TruncDiv(m * (g - 1) + dim * k, g - 1) ELSE dim \div 2

\* int(margin + (dim - 2 * margin) * k / (grid_size - 1)) or dim // 2
GridCoord(dim, m, k, g) ==
    IF g > 1 THEN TruncDiv(m * (g - 1) + (dim - 2 * m) * k, g - 1) ELSE dim \div 2

\* mutant: row and column exchanged
GridPointTransposed(idx, n, w, h, m) ==
    LET grid_size == CeilSqrt(n)
        row == idx % grid_size
        col == idx \div grid_size
    IN <<GridCoord(w, m, col, grid_size), GridCoord(h, m, row, grid_size)>>

\* lines 99-105
GridPoint(idx, n, w, h, m) ==
    LET grid_size == CeilSqrt(n)
        row == idx \div grid_size
        col == idx % grid_size
    IN <<GridCoord(w, m, col, grid_size), GridCoord(h, m, row, grid_size)>>

InitSample ==
    /\ pc = "sample"
    /\ num_dots \in DotCounts
    /\ dot_radius \in DotRadii
    /\ image_size \in ImageSizes
    /\ points = <<>>
    /\ attempts = 0
    /\ gridPlaced = {}
    /\ connection_type = "sequential"
    /\ connection_order = <<>>
    /\ visited = {}
    /\ current_idx = NoIndex
    /\ rngDraws = 0
    /\ show_numbers = TRUE
    /\ hold_frames = DefaultHoldFrames
    /\ transition_frames = DefaultTransitionFrames
    /\ first_image = <<>>
    /\ final_image = <<>>
    /\ frames = <<>>
    /\ connection_idx = 0
    /\ generate_videos = TRUE
    /\ video_generator = TRUE
    /\ task_id = "task_0000"
    /\ video_path = None
    /\ task_pair = None

\* lines 81-82 with an empty range: random.randint raises ValueError
DrawRaises ==
    /\ pc = "sample"
    /\ Len(points) < num_dots
    /\ attempts < MaxAttempts
    /\ (width - margin < margin \/ height - margin < margin)
    /\ pc' = "raised"
    /\ UNCHANGED <<pair, rendering, config, points, sampling, ordering>>

\* lines 80-94: a draw that is far enough from every accepted point
DrawAccept ==
    /\ pc = "sample"
    /\ Len(points) < num_dots
    /\ attempts < MaxAttempts
    /\ \E x \in RandintX(margin, width - margin) :
       \E y \in RandintY(margin, height - margin) :
          /\ ~TooClose(<<x, y>>, points, margin)
          /\ points' = Append(points, <<x, y>>)
    /\ attempts' = 0
    /\ pc' = IF Len(points) + 1 = num_dots THEN "sampled" ELSE "sample"
    /\ UNCHANGED <<pair, rendering, config, gridPlaced, ordering>>

\* lines 80-95: a draw that is too close to an accepted point
DrawReject ==
    /\ pc = "sample"
    /\ Len(points) < num_dots
    /\ attempts < MaxAttempts
    /\ \E x \in RandintX(margin, width - margin) :
       \E y \in RandintY(margin, height - margin) :
          TooClose(<<x, y>>, points, margin)
    /\ attempts' = attempts + 1
    /\ UNCHANGED <<pair, pc, rendering, config, points, gridPlaced, ordering>>

\* lines 97-105: the grid fallback
GridFallback ==
    /\ pc = "sample"
    /\ Len(points) < num_dots
    /\ attempts >= MaxAttempts
    /\ points' = Append(points, GridPoint(Len(points), num_dots, width, height, margin))
    /\ gridPlaced' = gridPlaced \cup {Len(points)}
    /\ attempts' = 0
    /\ pc' = IF Len(points) + 1 = num_dots THEN "sampled" ELSE "sample"
    /\ UNCHANGED <<pair, rendering, config, ordering>>

NextSample == DrawRaises \/ DrawAccept \/ DrawReject \/ GridFallback

Spec == InitSample /\ [][NextSample]_vars

\* ------------------------------------------------------------------------
\* _determine_connection_order and _find_path_order
\* ------------------------------------------------------------------------
ConnectionTypes == {"sequential", "path", "random", "spiral"}

\* the point lists handed to _determine_connection_order: the corners of a
\* square and one more point, repetitions allowed
OrderPoints == {<<100, 100>>, <<200, 100>>, <<200, 200>>, <<100, 200>>, <<150, 200>>}

PointLists(n) == [1..n -> OrderPoints]

\* mutant: list(range(1, n + 1))
RangeFromOne(n) == [k \in 1..n |-> k]

\* list(range(n))
RangeList(n) == [k \in 1..n |-> k - 1]

\* the results random.shuffle can leave in list(range(n))
Shuffles(n) == {o \in [1..n -> 0..(n - 1)] : \A a, b \in 1..n : a # b => o[a] # o[b]}

\* float('inf'), as a squared distance
Infinity == -1

\* mutant: dist <= min_dist, the last minimum wins
CloserOrEqual(d, min_dist) == min_dist = Infinity \/ d <= min_dist

\* dist < min_dist, compared on the squares
Closer(d, min_dist) == min_dist = Infinity \/ d < min_dist

\* mutant: the test `i not in visited` dropped
NotVisitedIgnored(i, vis) == TRUE

\* i not in visited
NotVisited(i, vis) == i \notin vis

\* lines 156-167: the scan for i = from .. n-1, carrying <<min_dist, next_idx>>
RECURSIVE NearestScan(_, _, _, _, _)
NearestScan(i, best, pts, vis, cur) ==
    IF i >= Len(pts) THEN best
    ELSE LET dist == Dist2(pts[i + 1], pts[cur + 1])
         IN IF NotVisited(i, vis) /\ Closer(dist, best[1])
            THEN NearestScan(i + 1, <<dist, i>>, pts, vis, cur)
            ELSE NearestScan(i + 1, best, pts, vis, cur)

NearestUnvisited(pts, vis, cur) == NearestScan(0, <<Infinity, NoIndex>>, pts, vis, cur)[2]

InitOrder ==
    /\ pc = "order"
    /\ num_dots \in MinNumDots..MaxOrderDots
    /\ dot_radius = 8
    /\ image_size = <<512, 512>>
    /\ points \in PointLists(num_dots)
    /\ attempts = 0
    /\ gridPlaced = {}
    /\ connection_type \in ConnectionTypes
    /\ connection_order = <<>>
    /\ visited = {}
    /\ current_idx = NoIndex
    /\ rngDraws = 0
    /\ show_numbers = TRUE
    /\ hold_frames = DefaultHoldFrames
    /\ transition_frames = DefaultTransitionFrames
    /\ first_image = <<>>
    /\ final_image = <<>>
    /\ frames = <<>>
    /\ connection_idx = 0
    /\ generate_videos = TRUE
    /\ video_generator = TRUE
    /\ task_id = "task_0000"
    /\ video_path = None
    /\ task_pair = None

\* lines 124-126
OrderSequential ==
    /\ pc = "order"
    /\ connection_type = "sequential"
    /\ connection_order' = RangeList(Len(points))
    /\ pc' = "ordered"
    /\ UNCHANGED <<pair, rendering, config, points, sampling, visited, current_idx, rngDraws>>

\* lines 132-136
OrderRandom ==
    /\ pc = "order"
    /\ connection_type = "random"
    /\ connection_order' \in Shuffles(Len(points))
    /\ rngDraws' = rngDraws + 1
    /\ pc' = "ordered"
    /\ UNCHANGED <<pair, rendering, config, points, sampling, visited, current_idx>>

\* mutant: an unrecognized connection_type raises ValueError
OrderDefaultRaises ==
    /\ pc = "order"
    /\ connection_type \notin {"sequential", "path", "random"}
    /\ pc' = "raised"
    /\ UNCHANGED <<pair, rendering, config, points, sampling, ordering>>

\* lines 138-140
OrderDefault ==
    /\ pc = "order"
    /\ connection_type \notin {"sequential", "path", "random"}
    /\ connection_order' = RangeList(Len(points))
    /\ pc' = "ordered"
    /\ UNCHANGED <<pair, rendering, config, points, sampling, visited, current_idx, rngDraws>>

\* lines 128-130 and 144-152
PathStart ==
    /\ pc = "order"
    /\ connection_type = "path"
    /\ IF Len(points) <= 1
       THEN /\ connection_order' = RangeList(Len(points))
            /\ pc' = "ordered"
            /\ UNCHANGED <<pair, visited, current_idx, rngDraws>>
       ELSE \E start_idx \in 0..(Len(points) - 1) :
            /\ visited' = {start_idx}
            /\ connection_order' = <<start_idx>>
            /\ current_idx' = start_idx
            /\ rngDraws' = rngDraws + 1
            /\ pc' = "path"
    /\ UNCHANGED <<pair, rendering, config, points, sampling>>

\* lines 155-174: one iteration of the while loop
PathStep ==
    /\ pc = "path"
    /\ Cardinality(visited) < Len(points)
    /\ LET next_idx == NearestUnvisited(points, visited, current_idx)
       IN IF next_idx # NoIndex
          THEN /\ connection_order' = Append(connection_order, next_idx)
               /\ visited' = visited \cup {next_idx}
               /\ current_idx' = next_idx
               /\ pc' = "path"
          ELSE /\ pc' = "ordered"
               /\ UNCHANGED <<pair, connection_order, visited, current_idx>>
    /\ UNCHANGED <<pair, rendering, config, points, sampling, rngDraws>>

\* lines 155 and 176: the loop condition fails and the order is returned
PathReturn ==
    /\ pc = "path"
    /\ Cardinality(visited) >= Len(points)
    /\ pc' = "ordered"
    /\ UNCHANGED <<pair, rendering, config, points, sampling, ordering>>

NextOrder ==
    OrderSequential \/ OrderRandom \/ OrderDefault \/ PathStart \/ PathStep \/ PathReturn

SpecOrder == InitOrder /\ [][NextOrder]_vars

\* ------------------------------------------------------------------------
\* _render_initial_state, _render_final_state, _animate_single_connection and
\* _create_connection_animation_frames.  An image is the sequence of the draw
\* calls made on it, back to front.
\* ------------------------------------------------------------------------
\* draw.line([p, p + (q - p) * num / den]); a whole connection has num = den = 1
LineCall(p, q, num, den) ==
    [call |-> "line", p |-> p, q |-> q, num |-> num, den |-> den, text |-> 0]

\* draw.ellipse around p
EllipseCall(p) ==
    [call |-> "ellipse", p |-> p, q |-> p, num |-> 1, den |-> 1, text |-> 0]

\* the nine draw.text calls that write str(n) centred on p (halo, then fill)
TextCall(p, n) ==
    [call |-> "text", p |-> p, q |-> p, num |-> 1, den |-> 1, text |-> n]

\* connection_order.index(idx): the first 0-based position holding idx
IndexOf(order, idx) ==
    CHOOSE k \in 0..(Len(order) - 1) :
        /\ order[k + 1] = idx
        /\ \A j \in 0..(k - 1) : order[j + 1] # idx

\* mutant: the dot is labelled with its own index + 1
DotNumberByIndex(order, idx) == idx + 1

\* dot_number = connection_order.index(idx) + 1
DotNumber(order, idx) == IndexOf(order, idx) + 1

\* mutant: the label of a point is written before its circle is drawn
RECURSIVE DrawDotsLabelFirst(_, _, _, _)
DrawDotsLabelFirst(idx, pts, order, show) ==
    IF idx >= Len(pts) THEN <<>>
    ELSE (IF show THEN <<TextCall(pts[idx + 1], IndexOf(order, idx) + 1)>> ELSE <<>>)
         \o <<EllipseCall(pts[idx + 1])>>
         \o DrawDotsLabelFirst(idx + 1, pts, order, show)

\* the loop `for idx, (x, y) in enumerate(points)`, from index idx on
RECURSIVE DrawDots(_, _, _, _)
DrawDots(idx, pts, order, show) ==
    IF idx >= Len(pts) THEN <<>>
    ELSE <<EllipseCall(pts[idx + 1])>>
         \o (IF show THEN <<TextCall(pts[idx + 1], DotNumber(order, idx))>> ELSE <<>>)
         \o DrawDots(idx + 1, pts, order, show)

\* lines 182-224
RenderInitialState(pts, order, show) == DrawDots(0, pts, order, show)

\* mutant: every line starts at the first point of the order
FinalConnectionFromStart(order, i) == <<order[1], order[i + 2]>>

\* lines 236-237: idx1, idx2 of connection i (0-based)
FinalConnection(order, i) == <<order[i + 1], order[i + 2]>>

\* lines 235-241
FinalLines(pts, order) ==
    [k \in 1..Max(Len(order) - 1, 0) |->
        LET c == FinalConnection(order, k - 1)
        IN LineCall(pts[c[1] + 1], pts[c[2] + 1], 1, 1)]

\* lines 226-277
RenderFinalState(pts, order, show) == FinalLines(pts, order) \o DrawDots(0, pts, order, show)

\* mutant: every completed line starts at the first point of the order
CompletedConnectionFromStart(order, conn_idx) == <<order[1], order[conn_idx + 2]>>

\* lines 395-396: cidx1, cidx2 of completed connection conn_idx
CompletedConnection(order, conn_idx) == <<order[conn_idx + 1], order[conn_idx + 2]>>

\* mutant: only the connection completed last is redrawn
CompletedLinesLastOnly(conn_idx, num_connections_completed, pts, order) ==
    IF num_connections_completed >= 1 /\ num_connections_completed - 1 < Len(order) - 1
    THEN LET c == CompletedConnection(order, num_connections_completed - 1)
         IN <<LineCall(pts[c[1] + 1], pts[c[2] + 1], 1, 1)>>
    ELSE <<>>

\* lines 393-399: for conn_idx in range(num_connections_completed), from conn_idx on
RECURSIVE CompletedLines(_, _, _, _)
CompletedLines(conn_idx, num_connections_completed, pts, order) ==
    IF conn_idx >= num_connections_completed THEN <<>>
    ELSE (IF conn_idx < Len(order) - 1
          THEN LET c == CompletedConnection(order, conn_idx)
               IN <<LineCall(pts[c[1] + 1], pts[c[2] + 1], 1, 1)>>
          ELSE <<>>)
         \o CompletedLines(conn_idx + 1, num_connections_completed, pts, order)

\* mutant: progress = i / num_frames
ProgressOverNumFrames(i, num_frames) == <<i, Max(num_frames, 1)>>

\* line 386: progress of frame i as <<numerator, denominator>>
Progress(i, num_frames) == IF num_frames > 1 THEN <<i, num_frames - 1>> ELSE <<1, 1>>

\* lines 388-435: frame i of one connection
ConnectionFrame(pts, order, show, num_connections_completed, from_idx, to_idx, i, num_frames) ==
    LET progress == Progress(i, num_frames)
    IN CompletedLines(0, num_connections_completed, pts, order)
       \o (IF progress[1] > 0
           THEN <<LineCall(pts[from_idx + 1], pts[to_idx + 1], progress[1], progress[2])>>
           ELSE <<>>)
       \o DrawDots(0, pts, order, show)

\* mutant: range(num_frames + 1)
FrameCountPlusOne(num_frames) == num_frames + 1

\* line 385: the number of iterations of `for i in range(num_frames)`
FrameCount(num_frames) == Max(num_frames, 0)

\* lines 369-437
AnimateSingleConnection(pts, order, show, num_connections_completed, from_idx, to_idx, num_frames) ==
    [k \in 1..FrameCount(num_frames) |->
        ConnectionFrame(pts, order, show, num_connections_completed, from_idx, to_idx,
                        k - 1, num_frames)]

\* lines 344-345 and 364-365: n appended copies of one frame
Copies(frame, n) == [k \in 1..Max(n, 0) |-> frame]

\* the task_data handed to the renderer: distinct points, the first three
\* those of the three-point scenario
AnimPoints(n) ==
    [k \in 1..n |->
        IF k = 1 THEN <<100, 100>>
        ELSE IF k = 2 THEN <<200, 100>>
        ELSE IF k = 3 THEN <<150, 200>>
        ELSE <<60 * k, 472 - 40 * k>>]

AnimDotCounts == MinNumDots..MaxAnimDots \cup {DefaultNumDots}

HoldChoices == 0..MaxHold \cup {DefaultHoldFrames}

TransitionChoices == 0..MaxTransition \cup {DefaultTransitionFrames}

InitAnim ==
    /\ pc = "render_first"
    /\ num_dots \in AnimDotCounts
    /\ dot_radius = 8
    /\ image_size = <<512, 512>>
    /\ points = AnimPoints(num_dots)
    /\ attempts = 0
    /\ gridPlaced = {}
    /\ connection_type = "random"
    /\ connection_order \in Shuffles(num_dots)
    /\ visited = {}
    /\ current_idx = NoIndex
    /\ rngDraws = 0
    /\ show_numbers \in BOOLEAN
    /\ hold_frames \in HoldChoices
    /\ transition_frames \in TransitionChoices
    /\ first_image = <<>>
    /\ final_image = <<>>
    /\ frames = <<>>
    /\ connection_idx = 0
    /\ generate_videos = TRUE
    /\ video_generator = TRUE
    /\ task_id = "task_0000"
    /\ video_path = None
    /\ task_pair = None

\* generate_task_pair, line 45
RenderFirst ==
    /\ pc = "render_first"
    /\ first_image' = RenderInitialState(points, connection_order, show_numbers)
    /\ pc' = "render_final"
    /\ UNCHANGED <<pair, config, points, sampling, ordering, hold_frames, transition_frames,
                   final_image, frames, connection_idx>>

\* mutant: rendering the final state sorts connection_order in place
RenderFinalSortingOrder ==
    /\ pc = "render_final"
    /\ final_image' = RenderFinalState(points, connection_order, show_numbers)
    /\ connection_order' = RangeList(Len(connection_order))
    /\ pc' = "hold_initial"
    /\ UNCHANGED <<pair, config, points, sampling, visited, current_idx, rngDraws, hold_frames,
                   transition_frames, first_image, frames, connection_idx>>

\* generate_task_pair, line 46
RenderFinal ==
    /\ pc = "render_final"
    /\ final_image' = RenderFinalState(points, connection_order, show_numbers)
    /\ pc' = "hold_initial"
    /\ UNCHANGED <<pair, config, points, sampling, ordering, hold_frames, transition_frames,
                   first_image, frames, connection_idx>>

\* _create_connection_animation_frames, lines 338-345
HoldInitial ==
    /\ pc = "hold_initial"
    /\ frames' = Copies(RenderInitialState(points, connection_order, show_numbers), hold_frames)
    /\ connection_idx' = 0
    /\ pc' = "connections"
    /\ UNCHANGED <<pair, config, points, sampling, ordering, hold_frames, transition_frames,
                   first_image, final_image>>

\* _create_connection_animation_frames, lines 348-360: one iteration
AnimateConnection ==
    /\ pc = "connections"
    /\ connection_idx < Len(connection_order) - 1
    /\ LET idx1 == connection_order[connection_idx + 1]
           idx2 == connection_order[connection_idx + 2]
       IN frames' = frames \o AnimateSingleConnection(points, connection_order, show_numbers,
                                 connection_idx + 1, idx1, idx2, transition_frames)
    /\ connection_idx' = connection_idx + 1
    /\ UNCHANGED <<pair, pc, config, points, sampling, ordering, hold_frames, transition_frames,
                   first_image, final_image>>

\* _create_connection_animation_frames, lines 362-367
HoldFinal ==
    /\ pc = "connections"
    /\ connection_idx >= Len(connection_order) - 1
    /\ frames' = frames \o Copies(RenderFinalState(points, connection_order, show_numbers),
                                  hold_frames)
    /\ pc' = "animated"
    /\ UNCHANGED <<pair, config, points, sampling, ordering, hold_frames, transition_frames,
                   first_image, final_image, connection_idx>>

NextAnim == RenderFirst \/ RenderFinal \/ HoldInitial \/ AnimateConnection \/ HoldFinal

SpecAnim == InitAnim /\ [][NextAnim]_vars

\* ------------------------------------------------------------------------
\* generate_task_pair, _generate_video and get_prompt
\* ------------------------------------------------------------------------
\* config.dot_color and config.line_color
DotColor == <<50, 50, 200>>

LineColor == <<200, 50, 50>>

\* config.domain
Domain == "dot_to_dot"

\* the task_id values handed to generate_task_pair
TaskIds == {"dot_to_dot_0000", "dot_to_dot_0001"}

\* prompts.py, _get_color_description
GetColorDescription(rgb) ==
    LET r == rgb[1]
        g == rgb[2]
        b == rgb[3]
    IN IF r < 100 /\ g < 100 /\ b > 150 THEN "blue"
       ELSE IF r > 150 /\ g < 100 /\ b < 100 THEN "red"
       ELSE IF r > 200 /\ g > 200 /\ b > 200 THEN "white"
       ELSE IF r < 50 /\ g < 50 /\ b < 50 THEN "black"
       ELSE "RGB"

\* prompts.py, get_prompt: the template chosen and the values formatted into it
GetPrompt(n, ctype) ==
    [template |-> IF ctype = "sequential" THEN "sequential"
                  ELSE IF ctype = "path" THEN "path"
                  ELSE IF ctype = "random" THEN "random"
                  ELSE "default",
     num_dots |-> n,
     dot_color_desc |-> GetColorDescription(DotColor),
     line_color_desc |-> GetColorDescription(LineColor)]

\* a result of create_video_from_frames that is false in a condition
NoResult == <<>>

\* lines 313-315: temp_dir / f"{task_id}_ground_truth.mp4"
VideoFile(id) == <<Domain \o "_videos", id \o "_ground_truth.mp4">>

\* str() of a path
Str(path) == path[1] \o "/" \o path[2]

\* __init__, lines 33-36, then the call of generate_task_pair
InitPair ==
    /\ pc = "sample"
    /\ num_dots = MinNumDots
    /\ dot_radius \in DotRadii
    /\ image_size \in ImageSizes
    /\ points = <<>>
    /\ attempts = 0
    /\ gridPlaced = {}
    /\ connection_type \in ConnectionTypes
    /\ connection_order = <<>>
    /\ visited = {}
    /\ current_idx = NoIndex
    /\ rngDraws = 0
    /\ show_numbers = TRUE
    /\ hold_frames = DefaultHoldFrames
    /\ transition_frames = DefaultTransitionFrames
    /\ first_image = <<>>
    /\ final_image = <<>>
    /\ frames = <<>>
    /\ connection_idx = 0
    /\ generate_videos \in BOOLEAN
    /\ video_generator \in {v \in BOOLEAN : v => generate_videos}
    /\ task_id \in TaskIds
    /\ video_path = None
    /\ task_pair = None

\* _generate_task_data, line 108: the sampled points go to _determine_connection_order
DetermineOrder ==
    /\ pc = "sampled"
    /\ pc' = "order"
    /\ UNCHANGED <<pair, config, points, sampling, ordering, rendering>>

\* _generate_task_data, lines 110-118, and generate_task_pair, line 42
ReturnTaskData ==
    /\ pc = "ordered"
    /\ pc' = "render_first"
    /\ UNCHANGED <<pair, config, points, sampling, ordering, rendering>>

\* generate_task_pair, lines 49-50: the condition fails
SkipVideo ==
    /\ pc = "hold_initial"
    /\ ~(generate_videos /\ video_generator)
    /\ video_path' = None
    /\ pc' = "prompt"
    /\ UNCHANGED <<config, points, sampling, ordering, rendering,
                   generate_videos, video_generator, task_id, task_pair>>

\* generate_task_pair, lines 50-51, and _generate_video, lines 318-323
CreateFrames ==
    /\ generate_videos /\ video_generator
    /\ HoldInitial

\* mutant: the encoder takes a value from the random module
EncodeVideoConsumingDraw ==
    /\ pc = "animated"
    /\ \E result \in {VideoFile(task_id), NoResult} :
          video_path' = IF result # NoResult THEN Str(result) ELSE None
    /\ rngDraws' = rngDraws + 1
    /\ pc' = "prompt"
    /\ UNCHANGED <<config, points, sampling, connection_order, visited, current_idx, rendering,
                   generate_videos, video_generator, task_id, task_pair>>

\* _generate_video, lines 320-325
EncodeVideo ==
    /\ pc = "animated"
    /\ \E result \in {VideoFile(task_id), NoResult} :
          video_path' = IF result # NoResult THEN Str(result) ELSE None
    /\ pc' = "prompt"
    /\ UNCHANGED <<config, points, sampling, ordering, rendering,
                   generate_videos, video_generator, task_id, task_pair>>

\* generate_task_pair, lines 54-63
ReturnTaskPair ==
    /\ pc = "prompt"
    /\ task_pair' = [task_id |-> task_id,
                     domain |-> Domain,
                     prompt |-> GetPrompt(num_dots, connection_type),
                     first_image |-> first_image,
                     final_image |-> final_image,
                     ground_truth_video |-> video_path]
    /\ pc' = "returned"
    /\ UNCHANGED <<config, points, sampling, ordering, rendering,
                   generate_videos, video_generator, task_id, video_path>>

NextPair ==
    \/ NextSample
    \/ DetermineOrder
    \/ NextOrder
    \/ ReturnTaskData
    \/ RenderFirst
    \/ RenderFinal
    \/ SkipVideo
    \/ CreateFrames
    \/ AnimateConnection
    \/ HoldFinal
    \/ EncodeVideo
    \/ ReturnTaskPair

SpecPair == InitPair /\ [][NextPair]_vars

\* ------------------------------------------------------------------------
\* Properties of the sampling loop
\* ------------------------------------------------------------------------
CanvasFits == width >= 2 * margin /\ height >= 2 * margin

InBounds(p) ==
    /\ margin <= p[1] /\ p[1] <= width - margin
    /\ margin <= p[2] /\ p[2] <= height - margin

\* C1: on a canvas of at least 2*margin in both dimensions the sampling loop
\* never raises, every point it has placed (drawn or from the grid fallback)
\* lies in [margin, dim - margin] on both axes, and it returns exactly
\* num_dots points.
C1_PointsInBounds ==
    CanvasFits =>
        /\ pc # "raised"
        /\ Len(points) <= num_dots
        /\ \A k \in 1..Len(points) : InBounds(points[k])
        /\ (pc = "sampled" => Len(points) = num_dots)

\* a finished sample of five points that mixes accepted draws with grid
\* points, one of them at a truncated interior grid coordinate
C1_Witness ==
    /\ pc = "sampled"
    /\ CanvasFits
    /\ num_dots = 5
    /\ gridPlaced # {}
    /\ Cardinality(gridPlaced) < num_dots
    /\ \E i \in gridPlaced :
          /\ points[i + 1][2] \notin {margin, height - margin}
          /\ 2 * points[i + 1][2] # height

\* C2: while no point has been placed by the grid fallback, every two
\* distinct points are at distance >= 1.5 * margin.
C2_Separation ==
    gridPlaced = {} =>
        \A i, j \in 1..Len(points) :
            i # j => 4 * Dist2(points[i], points[j]) >= 9 * margin * margin

\* a finished sample without any grid point
C2_Witness == pc = "sampled" /\ gridPlaced = {} /\ num_dots >= 4

\* ------------------------------------------------------------------------
\* Properties of the connection order
\* ------------------------------------------------------------------------
Indices == 0..(Len(points) - 1)

OrderSet == {connection_order[k] : k \in 1..Len(connection_order)}

NoRepeat(o) == \A a, b \in 1..Len(o) : a # b => o[a] # o[b]

\* C3: in every connection mode the order never holds an index twice or an
\* index outside 0..N-1, and the returned order has length N, so it is a
\* permutation of 0..N-1.
C3_OrderIsPermutation ==
    /\ NoRepeat(connection_order)
    /\ OrderSet \subseteq Indices
    /\ (pc = "ordered" => Len(connection_order) = Len(points) /\ OrderSet = Indices)

\* an order returned by the nearest-neighbour walk over a list that repeats a point
C3_Witness ==
    /\ pc = "ordered"
    /\ connection_type = "path"
    /\ Len(points) = 4
    /\ \E i, j \in 1..Len(points) : i # j /\ points[i] = points[j]
    /\ connection_order # RangeList(Len(points))

\* the indices not visited before position k of the order
UnvisitedBefore(k) == Indices \ {connection_order[a] : a \in 1..(k - 1)}

\* four distinct points, each with two others at the side length and one at the diagonal
IsSquare(pts) ==
    /\ Len(pts) = 4
    /\ \E s \in {Dist2(pts[1], pts[b]) : b \in 2..4} :
         /\ s > 0
         /\ \A a \in 1..4 :
              /\ Cardinality({b \in 1..4 : Dist2(pts[a], pts[b]) = s}) = 2
              /\ Cardinality({b \in 1..4 : Dist2(pts[a], pts[b]) = 2 * s}) = 1

\* C4: in path mode every position k >= 1 of the order holds an unvisited
\* point nearest to the point before it, the lowest index among the nearest
\* ones; on a square the second point visited is adjacent to the start.
C4_NearestNeighbour ==
    connection_type = "path" =>
        /\ \A k \in 2..Len(connection_order) :
             LET cur == points[connection_order[k - 1] + 1]
                 nxt == connection_order[k]
             IN /\ nxt \in UnvisitedBefore(k)
                /\ \A j \in UnvisitedBefore(k) :
                     /\ Dist2(points[nxt + 1], cur) <= Dist2(points[j + 1], cur)
                     /\ (Dist2(points[j + 1], cur) = Dist2(points[nxt + 1], cur) => nxt <= j)
        /\ (IsSquare(points) /\ Len(connection_order) >= 2 =>
              \A j \in Indices \ {connection_order[1]} :
                 Dist2(points[connection_order[2] + 1], points[connection_order[1] + 1])
                    <= Dist2(points[j + 1], points[connection_order[1] + 1]))

\* a finished walk over a square, where the two corners adjacent to the start tie
C4_Witness ==
    /\ pc = "ordered"
    /\ connection_type = "path"
    /\ IsSquare(points)
    /\ Len(connection_order) = 4

\* C5: in sequential mode the returned order is [0, 1, ..., N-1] and no
\* random draw was consumed.
C5_SequentialIdentity ==
    (pc = "ordered" /\ connection_type = "sequential") =>
        /\ Len(connection_order) = Len(points)
        /\ \A k \in 1..Len(points) : connection_order[k] = k - 1
        /\ rngDraws = 0

C5_Witness ==
    /\ pc = "ordered"
    /\ connection_type = "sequential"
    /\ Len(points) = 4
    /\ connection_order = <<0, 1, 2, 3>>

\* ------------------------------------------------------------------------
\* Properties of the rendered frames
\* ------------------------------------------------------------------------
IsLine(c) == c.call = "line"

IsText(c) == c.call = "text"

LineCalls(img) == SelectSeq(img, IsLine)

TextCalls(img) == SelectSeq(img, IsText)

\* a line call as a segment; a line drawn to progress 1 is the whole connection
Segment(c) == IF c.num = c.den THEN <<c.p, c.q, 1, 1>> ELSE <<c.p, c.q, c.num, c.den>>

\* the segments that show in an image: a partial line lying on a whole line
\* between the same two points adds nothing to it
VisibleSegments(img) ==
    LET all == {Segment(LineCalls(img)[k]) : k \in 1..Len(LineCalls(img))}
    IN {sg \in all : \/ sg[3] = sg[4]
                      \/ (<<sg[1], sg[2], 1, 1>> \notin all /\ <<sg[2], sg[1], 1, 1>> \notin all)}

\* what an image shows: its segments, its dots and its labels
Content(img) ==
    [lines |-> VisibleSegments(img),
     dots |-> {img[k].p : k \in {j \in 1..Len(img) : img[j].call = "ellipse"}},
     labels |-> {<<img[k].p, img[k].text>> : k \in {j \in 1..Len(img) : img[j].call = "text"}}]

\* connection k (0-based) of the visit order as a whole segment
ConnectionSegment(k) ==
    <<points[connection_order[k + 1] + 1], points[connection_order[k + 2] + 1], 1, 1>>

NumConnections == Len(connection_order) - 1

\* C6: the sequence holds hold_frames + (connections animated so far) *
\* transition_frames frames while it is built and exactly
\* 2*hold_frames + (N-1)*transition_frames frames when it is returned.
C6_FrameCount ==
    /\ (pc = "connections" =>
          Len(frames) = hold_frames + connection_idx * transition_frames)
    /\ (pc = "animated" =>
          Len(frames) = 2 * hold_frames + (Len(points) - 1) * transition_frames)

\* the scenario of five points with the default arguments: 70 frames
C6_Witness ==
    /\ pc = "animated"
    /\ Len(points) = 5
    /\ hold_frames = 5
    /\ transition_frames = 15
    /\ Len(frames) = 70

AnimationFrame(k, i) == frames[hold_frames + k * transition_frames + i + 1]

\* C8: frame i of the animation of connection k shows the connections of
\* rank < k at full length and connection k only from its source up to the
\* point at the frame's progress, nothing of it at progress 0.
C8_ConnectionGrows ==
    pc \in {"connections", "animated"} =>
        \A k \in 0..(connection_idx - 1) : \A i \in 0..(transition_frames - 1) :
            VisibleSegments(AnimationFrame(k, i)) =
                {ConnectionSegment(j) : j \in 0..(k - 1)}
                \cup (IF Progress(i, transition_frames)[1] > 0
                      THEN {Segment(LineCall(ConnectionSegment(k)[1], ConnectionSegment(k)[2],
                                             Progress(i, transition_frames)[1],
                                             Progress(i, transition_frames)[2]))}
                      ELSE {})

\* C9: the initial frame makes no line call; the final frame makes exactly
\* N-1 line calls, the k-th from order[k] to order[k+1]; for the three-point
\* scenario in order [0,1,2] these are (0,1) and (1,2) and not (0,2).
C9_InitialAndFinalLines ==
    pc \notin {"render_first", "render_final"} =>
        /\ LineCalls(first_image) = <<>>
        /\ Len(LineCalls(final_image)) = NumConnections
        /\ \A k \in 0..(NumConnections - 1) :
              Segment(LineCalls(final_image)[k + 1]) = ConnectionSegment(k)
        /\ (Len(points) = 3 /\ connection_order = <<0, 1, 2>> =>
              VisibleSegments(final_image) =
                 {<<<<100, 100>>, <<200, 100>>, 1, 1>>, <<<<200, 100>>, <<150, 200>>, 1, 1>>})

\* both images rendered for an order that is not the identity
C9_Witness ==
    /\ pc = "hold_initial"
    /\ Len(points) = 4
    /\ connection_order = <<2, 0, 3, 1>>
    /\ Len(LineCalls(final_image)) = 3

\* the images rendered so far
RenderedImages ==
    {frames[k] : k \in 1..Len(frames)}
    \cup (IF pc = "render_first" THEN {} ELSE {first_image})
    \cup (IF pc \in {"render_first", "render_final"} THEN {} ELSE {final_image})

\* C10: with labels shown, every rendered image labels point i with the
\* 1-based position of i in the visit order, so the labels are 1..N without
\* duplicates, connection k joins the dot labelled k+1 to the dot labelled
\* k+2, and every line drawn in the image lies on one of these connections.
C10_LabelsAreRanks ==
    show_numbers =>
        \A img \in RenderedImages :
            LET texts == TextCalls(img)
                lines == LineCalls(img)
                label(idx) == texts[idx + 1].text
            IN /\ Len(texts) = Len(points)
               /\ \A idx \in 0..(Len(points) - 1) :
                     /\ texts[idx + 1].p = points[idx + 1]
                     /\ connection_order[label(idx)] = idx
               /\ {texts[k].text : k \in 1..Len(texts)} = 1..Len(points)
               /\ \A c \in 0..(NumConnections - 1) :
                     /\ label(connection_order[c + 1]) = c + 1
                     /\ label(connection_order[c + 2]) = c + 2
               /\ \A k \in 1..Len(lines) :
                     \E c \in 0..(NumConnections - 1) :
                        /\ lines[k].p = points[connection_order[c + 1] + 1]
                        /\ lines[k].q = points[connection_order[c + 2] + 1]

\* a finished animation with labels for an order that is not the identity
C10_Witness ==
    /\ pc = "animated"
    /\ show_numbers
    /\ Len(points) = 4
    /\ connection_order = <<3, 1, 0, 2>>
    /\ Len(frames) > 2 * hold_frames

\* ------------------------------------------------------------------------
\* Failure of the sampling loop
\* ------------------------------------------------------------------------
\* C11: for every dot count, dot radius and canvas size the configuration
\* accepts, the sampling loop never raises and ends with exactly num_dots
\* points.
C11_SamplingNeverRaises ==
    /\ pc # "raised"
    /\ (pc = "sampled" => Len(points) = num_dots)

\* ------------------------------------------------------------------------
\* Unrecognized connection types
\* ------------------------------------------------------------------------
\* C12: for a connection_type other than sequential, path and random the
\* order is determined without an error and without a random draw, and it
\* is [0, 1, ..., N-1].
C12_UnknownTypeDefaultsToSequential ==
    connection_type \notin {"sequential", "path", "random"} =>
        /\ pc \in {"order", "ordered"}
        /\ rngDraws = 0
        /\ (pc = "ordered" =>
              /\ Len(connection_order) = Len(points)
              /\ \A i \in Indices : connection_order[i + 1] = i)

C12_Witness ==
    /\ pc = "ordered"
    /\ connection_type = "spiral"
    /\ Len(points) = 4
    /\ connection_order = <<0, 1, 2, 3>>

\* ------------------------------------------------------------------------
\* Progress of the partial line
\* ------------------------------------------------------------------------
\* the line calls of frame i of connection k that follow the whole lines of
\* the loop of lines 393-399
PartialCalls(k, i) ==
    LET lines == LineCalls(AnimationFrame(k, i))
        whole == Len(CompletedLines(0, k + 1, points, connection_order))
    IN SubSeq(lines, whole + 1, Len(lines))

\* the progress that frame i of connection k shows, as <<numerator, denominator>>
ShownProgress(k, i) ==
    IF PartialCalls(k, i) = <<>> THEN <<0, 1>>
    ELSE <<PartialCalls(k, i)[1].num, PartialCalls(k, i)[1].den>>

\* C17: frame i of a connection shows progress i/(n-1) for n =
\* transition_frames > 1 and 1 for n = 1; the progress lies in [0,1], grows
\* strictly with i, is 0 in the first and 1 in the last frame when n >= 2,
\* and the partial line runs from the source of the connection towards its
\* destination, ending at source + (destination - source) * progress.
C17_ProgressFraction ==
    pc \in {"connections", "animated"} =>
        \A k \in 0..(connection_idx - 1) : \A i \in 0..(transition_frames - 1) :
            LET shown == ShownProgress(k, i)
                n == transition_frames
            IN /\ Len(PartialCalls(k, i)) <= 1
               /\ shown[2] > 0
               /\ (n > 1 => shown[1] * (n - 1) = i * shown[2])
               /\ (n = 1 => shown[1] = shown[2])
               /\ 0 <= shown[1] /\ shown[1] <= shown[2]
               /\ (i + 1 < n =>
                     shown[1] * ShownProgress(k, i + 1)[2]
                        < ShownProgress(k, i + 1)[1] * shown[2])
               /\ (n >= 2 /\ i = 0 => shown[1] = 0)
               /\ (n >= 2 /\ i = n - 1 => shown[1] = shown[2])
               /\ \A c \in 1..Len(PartialCalls(k, i)) :
                     /\ PartialCalls(k, i)[c].p = ConnectionSegment(k)[1]
                     /\ PartialCalls(k, i)[c].q = ConnectionSegment(k)[2]

\* a finished animation with the default 15 frames per connection, the
\* eighth frame of the second connection at progress 7/14
C17_Witness ==
    /\ pc = "animated"
    /\ transition_frames = 15
    /\ Len(points) = 3
    /\ ShownProgress(1, 7) = <<7, 14>>
    /\ ShownProgress(1, 0) = <<0, 1>>

\* ------------------------------------------------------------------------
\* Completed connections over the frame sequence
\* ------------------------------------------------------------------------
\* the ranks of the connections an image shows at full length
FullyDrawn(img) ==
    {c \in 0..(NumConnections - 1) : ConnectionSegment(c) \in VisibleSegments(img)}

\* C19: from each frame of the sequence to the next the set of connections
\* shown at full length never loses a member, and in every frame it is closed
\* downwards: connection j+1 is complete only if connection j is.
C19_CompletedNeverShrinks ==
    /\ \A f \in 1..(Len(frames) - 1) : FullyDrawn(frames[f]) \subseteq FullyDrawn(frames[f + 1])
    /\ \A f \in 1..Len(frames) :
          \A c \in FullyDrawn(frames[f]) : c = 0 \/ c - 1 \in FullyDrawn(frames[f])

\* a finished animation of four points that starts with no connection, shows
\* exactly the first two somewhere and ends with all three
C19_Witness ==
    /\ pc = "animated"
    /\ Len(points) = 4
    /\ hold_frames >= 1
    /\ transition_frames >= 2
    /\ FullyDrawn(frames[1]) = {}
    /\ \E f \in 1..Len(frames) : FullyDrawn(frames[f]) = {0, 1}
    /\ FullyDrawn(frames[Len(frames)]) = {0, 1, 2}

\* ------------------------------------------------------------------------
\* Order of the draw calls within an image
\* ------------------------------------------------------------------------
\* C15 as claimed: in every rendered image no line is drawn after a dot
\* circle and no dot circle is drawn after a label.
C15_LinesThenDotsThenLabels ==
    \A img \in RenderedImages : \A a, b \in 1..Len(img) :
        a < b =>
            /\ ~(img[a].call = "ellipse" /\ img[b].call = "line")
            /\ ~(img[a].call = "text" /\ img[b].call = "ellipse")

\* C15 as amended: in every rendered image all lines come first, the whole
\* connections before the partial one, and then the points follow in index
\* order, each circle directly followed by the label of the same point when
\* labels are shown; so the circle of a later point is drawn after the labels
\* of the earlier points.
C15_LinesThenEachDotWithItsLabel ==
    \A img \in RenderedImages :
        LET nl == Len(LineCalls(img))
            per == IF show_numbers THEN 2 ELSE 1
        IN /\ \A a \in 1..nl : img[a].call = "line"
           /\ \A a \in 1..(nl - 1) : img[a].num = 1 /\ img[a].den = 1
           /\ Len(img) = nl + per * Len(points)
           /\ \A idx \in 0..(Len(points) - 1) :
                 /\ img[nl + per * idx + 1].call = "ellipse"
                 /\ img[nl + per * idx + 1].p = points[idx + 1]
                 /\ (show_numbers =>
                       /\ img[nl + per * idx + 2].call = "text"
                       /\ img[nl + per * idx + 2].p = points[idx + 1])

\* an animation frame with a partial line and labels, in which the circle of
\* the second point is drawn after the label of the first
C15_Witness ==
    /\ pc = "animated"
    /\ show_numbers
    /\ \E f \in 1..Len(frames) :
          LET img == frames[f]
              nl == Len(LineCalls(img))
          IN /\ nl >= 2
             /\ img[nl].num # img[nl].den
             /\ img[nl + 2].call = "text"
             /\ img[nl + 3].call = "ellipse"

\* ------------------------------------------------------------------------
\* Effects of rendering
\* ------------------------------------------------------------------------
\* C16: no step of rendering or of building the frame sequence changes the
\* points, the connection order or the configuration, or consumes a random
\* draw; so the initial state rendered again for the hold frames is the image
\* rendered first, and the final state rendered again is the final image.
C16_RenderingHasNoSideEffects ==
    [][/\ points' = points
       /\ connection_order' = connection_order
       /\ config' = config
       /\ rngDraws' = rngDraws
       /\ (pc = "hold_initial" /\ pc' = "connections" /\ hold_frames >= 1 =>
             frames'[1] = first_image)
       /\ (pc = "connections" /\ pc' = "animated" /\ hold_frames >= 1 =>
             frames'[Len(frames')] = final_image)]_vars

\* a finished sequence whose hold frames repeat both images, for an order
\* that is not the identity
C16_Witness ==
    /\ pc = "animated"
    /\ hold_frames >= 1
    /\ transition_frames >= 1
    /\ connection_order = <<1, 2, 0>>
    /\ frames[1] = first_image
    /\ frames[Len(frames)] = final_image
    /\ rngDraws = 0

\* ------------------------------------------------------------------------
\* The grid fallback
\* ------------------------------------------------------------------------
\* C18: a point is appended by the grid fallback exactly when 100 draws in a
\* row were rejected for it, and otherwise it is an accepted draw, separated
\* from every earlier point; a grid point lies at column idx mod g and row
\* idx div g of the g-by-g grid, g = ceil(sqrt(num_dots)), idx = number of
\* points placed before it, x = trunc(margin + (width - 2*margin)*col/(g-1)),
\* y = trunc(margin + (height - 2*margin)*row/(g-1)).
C18_GridFallbackRule ==
    [][/\ attempts <= MaxAttempts
       /\ (Len(points') = Len(points) + 1 =>
             LET idx == Len(points)
                 p == points'[idx + 1]
                 g == CHOOSE s \in 1..num_dots : (s - 1) * (s - 1) < num_dots /\ num_dots <= s * s
                 col == idx % g
                 row == idx \div g
             IN IF attempts = MaxAttempts
                THEN /\ gridPlaced' = gridPlaced \cup {idx}
                     /\ g > 1
                     /\ p[1] = margin + ((width - 2 * margin) * col) \div (g - 1)
                     /\ p[2] = margin + ((height - 2 * margin) * row) \div (g - 1)
                ELSE /\ gridPlaced' = gridPlaced
                     /\ \A k \in 1..idx : 4 * Dist2(p, points[k]) >= 9 * margin * margin)
       /\ (Len(points') = Len(points) => points' = points /\ gridPlaced' = gridPlaced)]_vars

\* a finished sample of five points whose last point is a grid point at a
\* truncated coordinate, closer to an earlier point than the separation
C18_Witness ==
    /\ pc = "sampled"
    /\ num_dots = 5
    /\ 4 \in gridPlaced
    /\ 0 \notin gridPlaced
    /\ 2 * (points[5][2] - margin) + 1 = height - 2 * margin
    /\ \E k \in 1..4 : 4 * Dist2(points[5], points[k]) < 9 * margin * margin

\* ------------------------------------------------------------------------
\* The task pair
\* ------------------------------------------------------------------------
VideoUnavailable == ~generate_videos \/ ~video_generator

\* C14: when video generation is disabled, no backend is available or the
\* encoder returned nothing, generate_task_pair raises no error and the task
\* it returns carries the task_id, the prompt, the initial and the final
\* image, and ground_truth_video = None.
C14_NoVideoStillReturns ==
    /\ (VideoUnavailable => pc # "raised")
    /\ (pc = "returned" /\ (VideoUnavailable \/ video_path = None) =>
          task_pair = [task_id |-> task_id,
                       domain |-> Domain,
                       prompt |-> GetPrompt(num_dots, connection_type),
                       first_image |-> RenderInitialState(points, connection_order, show_numbers),
                       final_image |-> RenderFinalState(points, connection_order, show_numbers),
                       ground_truth_video |-> None])

\* C20: the steps of the video branch (skipping it, building the frames,
\* encoding them) change neither the points, the visit order, the
\* configuration, the two images nor the number of random draws consumed,
\* and the prompt and the images of the returned task are those computed
\* from the task data alone.
C20_VideoDoesNotInterfere ==
    [][/\ (pc \in {"hold_initial", "connections", "animated"} =>
             /\ points' = points
             /\ connection_order' = connection_order
             /\ config' = config
             /\ first_image' = first_image
             /\ final_image' = final_image
             /\ rngDraws' = rngDraws)
       /\ (pc = "prompt" /\ pc' = "returned" =>
             /\ task_pair'.prompt = GetPrompt(num_dots, connection_type)
             /\ task_pair'.first_image =
                   RenderInitialState(points, connection_order, show_numbers)
             /\ task_pair'.final_image =
                   RenderFinalState(points, connection_order, show_numbers))]_vars

\* a task returned with its video after an order that consumed a draw
C20_Witness ==
    /\ pc = "returned"
    /\ generate_videos /\ video_generator
    /\ video_path = Str(VideoFile(task_id))
    /\ Len(frames) = 2 * DefaultHoldFrames + 2 * DefaultTransitionFrames
    /\ rngDraws = 1
    /\ connection_order # RangeList(num_dots)

====
